---- MODULE Spec2Model ----
(***************************************************************************)
(* rustfuzz (src/src/main.rs): the bounded-concurrency fuzz dispatch of    *)
(* main() and the breadth-first crawler crawl().                           *)
(*                                                                         *)
(* Strings are sequences of one-character strings, so that split, contains *)
(* and to_lowercase are computed and not assumed.  An Option is the empty  *)
(* sequence (None) or a one-element sequence (Some(x)).                    *)
(***************************************************************************)
EXTENDS Integers, Sequences, FiniteSets, TLC

VARIABLES
    config,     \* Config fields the dispatch reads: threads, rate_limit, matcher
    targets,    \* Vec<String> handed to stream::iter
    pc,         \* position of each target's async block
    res,        \* the value of `res` in each async block
    permits,    \* free permits of `semaphore`
    results,    \* the Vec<FuzzResult> behind the tokio Mutex
    progress,   \* position of progress_bar
    mainpc,     \* position of main() from the dispatch on
    exported,   \* content written by the export step (None until written)
    base_url,   \* crawl: Url::parse(base_url), None when it does not parse
    max_depth,  \* crawl: argument
    max_pages,  \* crawl: argument
    found,      \* crawl: HashSet<String> returned to the caller
    visited,    \* crawl: HashSet<String> of URLs already seen
    queue,      \* crawl: VecDeque<(Url, usize)>, the frontier
    crawlpc,    \* crawl: "start", "loop", "links" (inside the href loop) or "returned"
    page,       \* crawl: the (url, depth) popped last and the hrefs read from its body
    requests,   \* crawl: the GETs issued so far, in order, with their outcome
    pushed,     \* crawl: every (url, depth) ever given to queue.push_back
    dup_seen,   \* crawl: the URLs for which visited.insert returned false
    matches,    \* startup: the settings given on the command line (clap ArgMatches)
    cfg_file,   \* startup: what reading and parsing the --config file gives
    startpc,    \* startup: position of main() before the dispatch
    sent,       \* startup: the network requests issued so far, in order
    file,       \* export: text of the .json export file (None until written)
    loaded      \* analyze: what analyze_results read back (None until read)

fuzzvars == <<config, targets, pc, res, permits, results, progress, mainpc, exported>>

crawlvars == <<base_url, max_depth, max_pages, found, visited, queue, crawlpc, page,
               requests, pushed, dup_seen>>

startvars == <<matches, cfg_file, startpc, sent>>

filevars == <<file, loaded>>

vars == <<fuzzvars, crawlvars, startvars, filevars>>

(***************************************************************************)
(* Bounds of the model.                                                    *)
(***************************************************************************)
MaxTargets == 2
MaxThreads == 2
MaxLinks == 2
MaxDepth == 1
MaxPages == 3
MaxFlags == 1
MaxRequests == 2
MaxResults == 2

(***************************************************************************)
(* Option and string helpers.                                              *)
(***************************************************************************)
None == <<>>

Some(x) == <<x>>

UnwrapOr(o, d) == IF o = None THEN d ELSE o[1]

Range(s) == {s[k] : k \in 1..Len(s)}

ContainsNonEmpty(s, pat) ==
    /\ pat # <<>>
    /\ \E k \in 0..(Len(s) - Len(pat)) :
          \A j \in 1..Len(pat) : s[k + j] = pat[j]

\* str::contains: `pat` occurs in `s` as a contiguous substring.
Contains(s, pat) ==
    \E k \in 0..(Len(s) - Len(pat)) :
        \A j \in 1..Len(pat) : s[k + j] = pat[j]

\* char::to_lowercase on the letters the modelled bodies use.
LowerChar(c) ==
    CASE c = "A" -> "a" [] c = "F" -> "f" [] c = "T" -> "t" [] c = "L" -> "l"
      [] OTHER -> c

ToLowercase(s) == [k \in 1..Len(s) |-> LowerChar(s[k])]

\* target.split('/').last().unwrap_or(""): the text after the last '/'.
LastSlash(s) ==
    IF \E k \in 1..Len(s) : s[k] = "/"
    THEN CHOOSE k \in 1..Len(s) : s[k] = "/" /\ \A j \in (k + 1)..Len(s) : s[j] # "/"
    ELSE 0

WordOf(target) == SubSeq(target, LastSlash(target) + 1, Len(target))

error_patterns ==
    << <<"i","n","t","e","r","n","a","l"," ","s","e","r","v","e","r"," ","e","r","r","o","r">>,
       <<"e","x","c","e","p","t","i","o","n">>,
       <<"t","r","a","c","e","b","a","c","k">>,
       <<"f","a","t","a","l">>,
       <<"s","t","a","c","k"," ","t","r","a","c","e">>,
       <<"s","y","n","t","a","x"," ","e","r","r","o","r">>,
       <<"s","q","l"," ","e","r","r","o","r">>,
       <<"n","o","t"," ","a","l","l","o","w","e","d">>,
       <<"a","c","c","e","s","s"," ","d","e","n","i","e","d">>,
       <<"u","n","h","a","n","d","l","e","d">> >>

detect_error(body) ==
    \E p \in Range(error_patterns) : Contains(ToLowercase(body), p)

(***************************************************************************)
(* Configuration as main() unpacks it.                                     *)
(***************************************************************************)
DefaultThreads == 40

DefaultMatcher == <<200, 301, 302, 401, 403, 405, 500>>

\* A matcher field parses as u16 exactly when it is below 2^16.
ParsesAsU16(c) == c < 65536

threads_ignoring_config(cfg) == DefaultThreads

threads(cfg) == UnwrapOr(cfg.threads, DefaultThreads)

rate_limit(cfg) == UnwrapOr(cfg.rate_limit, 0)

status_codes(cfg) == SelectSeq(UnwrapOr(cfg.matcher, DefaultMatcher), ParsesAsU16)

(***************************************************************************)
(* Inputs.                                                                 *)
(***************************************************************************)
\* "u/a" (a wordlist target) and "u/" (a discovered directory URL).
TargetPool == { <<"u", "/", "a">>, <<"u", "/">> }

TargetLists == UNION {[1..n -> TargetPool] : n \in 0..MaxTargets}

ThreadOpts == {None} \cup {Some(n) : n \in 0..MaxThreads}

RateOpts == {None, Some(50)}

MatcherOpts == {None, Some(<<404, 70000>>)}

Configs == [threads : ThreadOpts, rate_limit : RateOpts, matcher : MatcherOpts]

Bodies == { <<>>, <<"F", "a", "t", "a", "l">> }

NoRes == [kind |-> "none", status |-> 0, body |-> <<>>]

ErrRes == [kind |-> "err", status |-> 0, body |-> <<>>]

OkRes(status, body) == [kind |-> "ok", status |-> status, body |-> body]

\* What fuzz_url_adv can return: Ok((status, body)) or Err(reqwest::Error).
Responses == {OkRes(s, b) : s \in {200, 404}, b \in Bodies} \cup {ErrRes}

ExportOpts == {None, Some("json"), Some("csv"), Some("txt")}

(***************************************************************************)
(* crawl(): URLs, hrefs and the filters applied to each extracted link.    *)
(*                                                                         *)
(* A parsed Url is the record of its scheme, host and path; Url::as_str is *)
(* one-to-one on parsed URLs, so the record also stands for the string the *)
(* code puts in `visited` and `found`.  A host is a domain name or an IP   *)
(* address.                                                                *)
(***************************************************************************)
DomainHost(name) == [kind |-> "domain", name |-> name]

IpHost(name) == [kind |-> "ip", name |-> name]

Url(scheme, host, path) == [scheme |-> scheme, host |-> host, path |-> path]

\* Url::domain(): Some(name) for a domain name, None for an IP address.
domain(u) == IF u.host.kind = "domain" THEN Some(u.host.name) ELSE None

RootPath == <<"/">>

PathA == <<"/", "a">>

PathB == <<"/", "b">>

PathJs == <<"/", "x", ".", "j", "s">>

NoUrl == Url("", DomainHost(""), <<>>)

\* An href as extracted by href_re: an absolute URL, an absolute path, a
\* fragment or mailto:/javascript:/tel:/data: reference, or text that
\* Url::join cannot resolve.
AbsHref(u) == [kind |-> "abs", url |-> u]

PathHref(p) == [kind |-> "path", url |-> Url("", DomainHost(""), p)]

FragmentHref == [kind |-> "fragment", url |-> NoUrl]

BadHref == [kind |-> "bad", url |-> NoUrl]

HrefPool ==
    { PathHref(RootPath), PathHref(PathA), PathHref(PathB), PathHref(PathJs),
      AbsHref(Url("http", DomainHost("b.com"), RootPath)),
      AbsHref(Url("https", DomainHost("a.com"), PathA)),
      AbsHref(Url("http", IpHost("10.0.0.1"), RootPath)),
      FragmentHref, BadHref }

NoPage == [url |-> NoUrl, depth |-> 0, hrefs |-> 0]

\* Url::parse of the base_url argument: three seeds that parse (a site root,
\* an IP-address root, a script URL) and one that does not.
Seeds ==
    { Some(Url("http", DomainHost("a.com"), RootPath)),
      Some(Url("http", IpHost("10.0.0.1"), RootPath)),
      Some(Url("http", DomainHost("a.com"), PathJs)),
      None }

\* href.starts_with('#') || "mailto:" || "javascript:" || "tel:" || "data:"
NonNavigable(h) == h.kind \in {"fragment", "mailto", "javascript", "tel", "data"}

\* url.join(href) is Ok
JoinOk(h) == h.kind \in {"abs", "path"}

\* url.join(href): an absolute href stands for itself, a path is resolved
\* against the page it was found on.
Join(url, h) ==
    IF h.kind = "abs" THEN h.url ELSE Url(url.scheme, url.host, h.url.path)

\* if let Some(domain) = joined.domain() { if let Some(base) = &base_domain
\*     { if domain != base { continue; } } }
DomainDiffers(joined, base_domain) ==
    /\ domain(joined) # None
    /\ base_domain # None
    /\ domain(joined)[1] # base_domain[1]

SchemeDiffers(joined, base) == joined.scheme # base.scheme

EndsWith(s, suffix) ==
    /\ Len(suffix) <= Len(s)
    /\ SubSeq(s, Len(s) - Len(suffix) + 1, Len(s)) = suffix

static_extensions ==
    { <<".", "j", "p", "g">>, <<".", "j", "p", "e", "g">>, <<".", "p", "n", "g">>,
      <<".", "g", "i", "f">>, <<".", "s", "v", "g">>, <<".", "i", "c", "o">>,
      <<".", "c", "s", "s">>, <<".", "j", "s">>, <<".", "w", "o", "f", "f">>,
      <<".", "w", "o", "f", "f", "2">>, <<".", "t", "t", "f">>, <<".", "e", "o", "t">>,
      <<".", "p", "d", "f">>, <<".", "z", "i", "p">> }

IsStaticAssetNever(joined) == FALSE

\* joined_str.ends_with(ext): a path starts with '/' and no extension holds
\* a '/', so the URL string ends with ext exactly when its path does.
IsStaticAsset(joined) == \E ext \in static_extensions : EndsWith(joined.path, ext)

NeverSeen(seen, joined) == TRUE

\* !visited.insert(joined_str): insert reports whether the string was new.
NewlyInserted(seen, joined) == joined \notin seen

push_front(q, e) == <<e>> \o q

\* VecDeque::push_back
push_back(q, e) == Append(q, e)

\* One pass of the body of `for cap in href_re.captures_iter(&body)`.
VisitHref(h, url, depth, base, st) ==
    IF NonNavigable(h) \/ ~JoinOk(h) THEN st
    ELSE LET joined == Join(url, h) IN
         IF DomainDiffers(joined, domain(base)) \/ SchemeDiffers(joined, base) THEN st
         ELSE IF ~NewlyInserted(st.visited, joined)
              THEN [st EXCEPT !.dup_seen = @ \cup {joined}]
         ELSE IF IsStaticAsset(joined)
              THEN [st EXCEPT !.visited = @ \cup {joined}]
              ELSE [visited |-> st.visited \cup {joined},
                    dup_seen |-> st.dup_seen,
                    found   |-> st.found \cup {joined},
                    queue   |-> push_back(st.queue, [url |-> joined, depth |-> depth + 1]),
                    pushed  |-> Append(st.pushed, [url |-> joined, depth |-> depth + 1])]

StopConditionDepthOnly(depth, nfound) == depth > max_depth

\* if depth > max_depth || found.len() >= max_pages { break; }
StopCondition(depth, nfound) == depth > max_depth \/ nfound >= max_pages

StartIdle ==
    /\ matches = <<>>
    /\ cfg_file = <<>>
    /\ startpc = "idle"
    /\ sent = <<>>

FileIdle ==
    /\ file = None
    /\ loaded = None

CrawlIdle ==
    /\ base_url = None
    /\ max_depth = 0
    /\ max_pages = 0
    /\ found = {}
    /\ visited = {}
    /\ queue = <<>>
    /\ crawlpc = "idle"
    /\ page = NoPage
    /\ requests = <<>>
    /\ pushed = <<>>
    /\ dup_seen = {}

FuzzIdle ==
    /\ config = [threads |-> None, rate_limit |-> None, matcher |-> None]
    /\ targets = <<>>
    /\ pc = <<>>
    /\ res = <<>>
    /\ permits = 0
    /\ results = <<>>
    /\ progress = 0
    /\ mainpc = "crawl"
    /\ exported = None

InitCrawl ==
    /\ base_url \in Seeds
    /\ max_depth \in 0..MaxDepth
    /\ max_pages \in 0..MaxPages
    /\ found = {}
    /\ visited = {}
    /\ queue = <<>>
    /\ crawlpc = "start"
    /\ page = NoPage
    /\ requests = <<>>
    /\ pushed = <<>>
    /\ dup_seen = {}
    /\ FuzzIdle
    /\ StartIdle
    /\ FileIdle

CrawlBeginSeedUnvisited ==
    /\ crawlpc = "start"
    /\ IF base_url = None
       THEN /\ crawlpc' = "returned"
            /\ UNCHANGED <<queue, pushed>>
       ELSE /\ crawlpc' = "loop"
            /\ queue' = <<[url |-> base_url[1], depth |-> 0]>>
            /\ pushed' = <<[url |-> base_url[1], depth |-> 0]>>
    /\ UNCHANGED <<base_url, max_depth, max_pages, found, visited, page, requests,
                   dup_seen>>
    /\ UNCHANGED <<fuzzvars, startvars, filevars>>

\* Err(_) => return found;  otherwise queue.push_back((base_url, 0)) and
\* visited.insert(base_url)
CrawlBegin ==
    /\ crawlpc = "start"
    /\ IF base_url = None
       THEN /\ crawlpc' = "returned"
            /\ UNCHANGED <<queue, visited, pushed>>
       ELSE /\ crawlpc' = "loop"
            /\ queue' = <<[url |-> base_url[1], depth |-> 0]>>
            /\ pushed' = <<[url |-> base_url[1], depth |-> 0]>>
            /\ visited' = {base_url[1]}
    /\ UNCHANGED <<base_url, max_depth, max_pages, found, page, requests, dup_seen>>
    /\ UNCHANGED <<fuzzvars, startvars, filevars>>

\* The popped entry meets the stop condition: break, then return found.
CrawlStop ==
    /\ crawlpc = "loop"
    /\ queue # <<>>
    /\ StopCondition(Head(queue).depth, Cardinality(found))
    /\ queue' = Tail(queue)
    /\ crawlpc' = "returned"
    /\ UNCHANGED <<base_url, max_depth, max_pages, found, visited, page, requests,
                   pushed, dup_seen>>
    /\ UNCHANGED <<fuzzvars, startvars, filevars>>

CrawlSkipPageAborts ==
    /\ crawlpc = "loop"
    /\ queue # <<>>
    /\ ~StopCondition(Head(queue).depth, Cardinality(found))
    /\ \E outcome \in {"error", "nonhtml", "badbody"} :
          requests' = Append(requests, [url |-> Head(queue).url, outcome |-> outcome])
    /\ queue' = Tail(queue)
    /\ crawlpc' = "returned"
    /\ UNCHANGED <<base_url, max_depth, max_pages, found, visited, page, pushed, dup_seen>>
    /\ UNCHANGED <<fuzzvars, startvars, filevars>>

\* The GET fails, or the response is not text/html, or its body cannot be
\* read: continue.
CrawlSkipPage ==
    /\ crawlpc = "loop"
    /\ queue # <<>>
    /\ ~StopCondition(Head(queue).depth, Cardinality(found))
    /\ \E outcome \in {"error", "nonhtml", "badbody"} :
          requests' = Append(requests, [url |-> Head(queue).url, outcome |-> outcome])
    /\ queue' = Tail(queue)
    /\ UNCHANGED <<base_url, max_depth, max_pages, found, visited, crawlpc, page,
                   pushed, dup_seen>>
    /\ UNCHANGED <<fuzzvars, startvars, filevars>>

\* The GET returns a text/html response whose body is read: the href loop
\* starts on it.
CrawlPage ==
    /\ crawlpc = "loop"
    /\ queue # <<>>
    /\ ~StopCondition(Head(queue).depth, Cardinality(found))
    /\ requests' = Append(requests, [url |-> Head(queue).url, outcome |-> "html"])
    /\ page' = [url |-> Head(queue).url, depth |-> Head(queue).depth, hrefs |-> 0]
    /\ queue' = Tail(queue)
    /\ crawlpc' = "links"
    /\ UNCHANGED <<base_url, max_depth, max_pages, found, visited, pushed, dup_seen>>
    /\ UNCHANGED <<fuzzvars, startvars, filevars>>

\* One iteration of `for cap in href_re.captures_iter(&body)`: the body's
\* next href, whatever it is, goes through the filters.
CrawlHref ==
    /\ crawlpc = "links"
    /\ page.hrefs < MaxLinks
    /\ \E h \in HrefPool :
          LET st == VisitHref(h, page.url, page.depth, base_url[1],
                              [visited |-> visited, found |-> found, queue |-> queue,
                               pushed |-> pushed, dup_seen |-> dup_seen])
          IN  /\ visited' = st.visited
              /\ found' = st.found
              /\ queue' = st.queue
              /\ pushed' = st.pushed
              /\ dup_seen' = st.dup_seen
    /\ page' = [page EXCEPT !.hrefs = @ + 1]
    /\ UNCHANGED <<base_url, max_depth, max_pages, crawlpc, requests>>
    /\ UNCHANGED <<fuzzvars, startvars, filevars>>

CrawlPageEndRescans ==
    /\ crawlpc = "links"
    /\ page' = [page EXCEPT !.hrefs = 0]
    /\ UNCHANGED <<base_url, max_depth, max_pages, found, visited, queue, crawlpc, requests,
                   pushed, dup_seen>>
    /\ UNCHANGED <<fuzzvars, startvars, filevars>>

\* The body has no further href: back to the top of the while loop.
CrawlPageEnd ==
    /\ crawlpc = "links"
    /\ crawlpc' = "loop"
    /\ page' = NoPage
    /\ UNCHANGED <<base_url, max_depth, max_pages, found, visited, queue, requests,
                   pushed, dup_seen>>
    /\ UNCHANGED <<fuzzvars, startvars, filevars>>

\* queue.pop_front() is None: the loop ends and found is returned.
CrawlDrained ==
    /\ crawlpc = "loop"
    /\ queue = <<>>
    /\ crawlpc' = "returned"
    /\ UNCHANGED <<base_url, max_depth, max_pages, found, visited, queue, page,
                   requests, pushed, dup_seen>>
    /\ UNCHANGED <<fuzzvars, startvars, filevars>>

NextCrawl ==
    \/ CrawlBegin
    \/ CrawlStop
    \/ CrawlSkipPage
    \/ CrawlPage
    \/ CrawlHref
    \/ CrawlPageEnd
    \/ CrawlDrained

SpecCrawl == InitCrawl /\ [][NextCrawl]_vars

\* Every request settles (the await at send() returns) and every other step
\* is straight-line code of the one task running crawl, so no enabled step
\* is postponed forever.
SpecCrawlFair == InitCrawl /\ [][NextCrawl]_vars /\ WF_vars(NextCrawl)

(***************************************************************************)
(* The fuzz dispatch: stream::iter(targets).for_each_concurrent(threads,   *)
(* ...) with one async block per target.                                   *)
(***************************************************************************)
N == Len(targets)

Active == {i \in 1..N : pc[i] \notin {"pending", "done"}}

\* Workers holding a permit of the semaphore.
InFlight == {i \in 1..N : pc[i] \in {"sleep", "send", "match", "append", "inc", "release"}}

StreamAlwaysHasRoom(limit, active) == TRUE

StreamLimitZeroBlocks(limit, active) == active < limit

\* for_each_concurrent: a limit of 0 means no limit.
StreamHasRoom(limit, active) == limit = 0 \/ active < limit

\* for_each_concurrent completes when the stream is exhausted and every
\* future it started has completed.
ForEachReturnsEarly == \A i \in 1..N : pc[i] # "pending"

ForEachComplete == \A i \in 1..N : pc[i] = "done"

\* Where the match on &res sends the block: to the push (status in the
\* matcher) or straight to progress_bar.inc(1).
MatchArmAnyStatus(cfg, r) ==
    IF r.kind = "ok" THEN "append" ELSE "inc"

MatchArmRecordsErrors(cfg, r) ==
    IF r.kind = "err" \/ r.status \in Range(status_codes(cfg)) THEN "append" ELSE "inc"

MatchArmSkipsProgress(cfg, r) ==
    IF r.kind = "ok" /\ r.status \in Range(status_codes(cfg)) THEN "append" ELSE "release"

MatchArm(cfg, r) ==
    IF r.kind = "ok" /\ r.status \in Range(status_codes(cfg)) THEN "append" ELSE "inc"

FuzzResultOf(i) ==
    [url       |-> targets[i],
     word      |-> WordOf(targets[i]),
     status    |-> res[i].status,
     reflected |-> Contains(res[i].body, WordOf(targets[i])),
     error     |-> IF detect_error(res[i].body)
                   THEN Some("Possible error detected") ELSE None]

InitFuzz ==
    /\ config \in Configs
    /\ targets \in TargetLists
    /\ pc = [i \in 1..Len(targets) |-> "pending"]
    /\ res = [i \in 1..Len(targets) |-> NoRes]
    /\ permits = threads(config)
    /\ results = <<>>
    /\ progress = 0
    /\ mainpc = "dispatch"
    /\ exported = None
    /\ CrawlIdle
    /\ StartIdle
    /\ FileIdle

\* The stream hands out the next target, in order, while there is room.
Start(i) ==
    /\ mainpc = "dispatch"
    /\ pc[i] = "pending"
    /\ \A j \in 1..(i - 1) : pc[j] # "pending"
    /\ StreamHasRoom(threads(config), Cardinality(Active))
    /\ pc' = [pc EXCEPT ![i] = "acquire"]
    /\ UNCHANGED <<crawlvars, startvars, filevars>>
    /\ UNCHANGED <<config, targets, res, permits, results, progress, mainpc, exported>>

AcquireSkipsDelay(i) ==
    /\ pc[i] = "acquire"
    /\ permits > 0
    /\ permits' = permits - 1
    /\ pc' = [pc EXCEPT ![i] = "send"]
    /\ UNCHANGED <<crawlvars, startvars, filevars>>
    /\ UNCHANGED <<config, targets, res, results, progress, mainpc, exported>>

\* let _permit = semaphore.acquire().await.unwrap();
Acquire(i) ==
    /\ pc[i] = "acquire"
    /\ permits > 0
    /\ permits' = permits - 1
    /\ pc' = [pc EXCEPT ![i] = IF rate_limit(config) > 0 THEN "sleep" ELSE "send"]
    /\ UNCHANGED <<crawlvars, startvars, filevars>>
    /\ UNCHANGED <<config, targets, res, results, progress, mainpc, exported>>

\* sleep(Duration::from_millis(rate_limit)).await elapses.
Wake(i) ==
    /\ pc[i] = "sleep"
    /\ pc' = [pc EXCEPT ![i] = "send"]
    /\ UNCHANGED <<crawlvars, startvars, filevars>>
    /\ UNCHANGED <<config, targets, res, permits, results, progress, mainpc, exported>>

\* fuzz_url_adv(...).await settles with a response or a transport error.
Settle(i) ==
    /\ pc[i] = "send"
    /\ \E r \in Responses : res' = [res EXCEPT ![i] = r]
    /\ pc' = [pc EXCEPT ![i] = "match"]
    /\ UNCHANGED <<crawlvars, startvars, filevars>>
    /\ UNCHANGED <<config, targets, permits, results, progress, mainpc, exported>>

\* match &res { Ok((status, body)) => if status_codes.contains(status) ..., Err(_e) => {} }
Match(i) ==
    /\ pc[i] = "match"
    /\ pc' = [pc EXCEPT ![i] = MatchArm(config, res[i])]
    /\ UNCHANGED <<crawlvars, startvars, filevars>>
    /\ UNCHANGED <<config, targets, res, permits, results, progress, mainpc, exported>>

\* results.lock().await.push(r): the guard lives for this statement only.
Push(i) ==
    /\ pc[i] = "append"
    /\ results' = Append(results, FuzzResultOf(i))
    /\ pc' = [pc EXCEPT ![i] = "inc"]
    /\ UNCHANGED <<crawlvars, startvars, filevars>>
    /\ UNCHANGED <<config, targets, res, permits, progress, mainpc, exported>>

\* progress_bar.inc(1);
Inc(i) ==
    /\ pc[i] = "inc"
    /\ progress' = progress + 1
    /\ pc' = [pc EXCEPT ![i] = "release"]
    /\ UNCHANGED <<crawlvars, startvars, filevars>>
    /\ UNCHANGED <<config, targets, res, permits, results, mainpc, exported>>

ReleaseLeaksPermit(i) ==
    /\ pc[i] = "release"
    /\ pc' = [pc EXCEPT ![i] = "done"]
    /\ UNCHANGED <<crawlvars, startvars, filevars>>
    /\ UNCHANGED <<config, targets, res, permits, results, progress, mainpc, exported>>

\* End of the async block: _permit is dropped and the future completes.
Release(i) ==
    /\ pc[i] = "release"
    /\ permits' = permits + 1
    /\ pc' = [pc EXCEPT ![i] = "done"]
    /\ UNCHANGED <<crawlvars, startvars, filevars>>
    /\ UNCHANGED <<config, targets, res, results, progress, mainpc, exported>>

\* .await on for_each_concurrent returns: stream exhausted, every future complete.
Barrier ==
    /\ mainpc = "dispatch"
    /\ ForEachComplete
    /\ mainpc' = "export"
    /\ UNCHANGED <<crawlvars, startvars, filevars>>
    /\ UNCHANGED <<config, targets, pc, res, permits, results, progress, exported>>

\* if let Some(export) = &config.export { ... }   (config.export is first read here)
Export ==
    /\ mainpc = "export"
    /\ \E e \in ExportOpts :
          exported' = IF e \in {Some("json"), Some("csv")} THEN Some(results) ELSE None
    /\ mainpc' = "analyze"
    /\ UNCHANGED <<crawlvars, startvars, filevars>>
    /\ UNCHANGED <<config, targets, pc, res, permits, results, progress>>

\* if let Some(analyze_file) = analyze_path { analyze_results(..).await }, then main returns.
Analyze ==
    /\ mainpc = "analyze"
    /\ mainpc' = "exit"
    /\ UNCHANGED <<crawlvars, startvars, filevars>>
    /\ UNCHANGED <<config, targets, pc, res, permits, results, progress, exported>>

NextFuzz ==
    \/ \E i \in 1..N : Start(i)
    \/ \E i \in 1..N : Acquire(i)
    \/ \E i \in 1..N : Wake(i)
    \/ \E i \in 1..N : Settle(i)
    \/ \E i \in 1..N : Match(i)
    \/ \E i \in 1..N : Push(i)
    \/ \E i \in 1..N : Inc(i)
    \/ \E i \in 1..N : Release(i)
    \/ Barrier
    \/ Export
    \/ Analyze

SpecFuzz == InitFuzz /\ [][NextFuzz]_vars

\* Every step of the dispatch is a future the runtime keeps polling and a
\* request that settles (the client has a timeout), so no enabled step is
\* postponed forever.
SpecFuzzFair == InitFuzz /\ [][NextFuzz]_vars /\ WF_vars(NextFuzz)

(***************************************************************************)
(* main() before the dispatch: the command line, the config file, the      *)
(* overrides, the word lists, the crawl call and the client.               *)
(***************************************************************************)
Settings ==
    {"url", "wordlist", "threads", "timeout", "matcher", "headers", "cookies",
     "auth_token", "proxy", "rate_limit", "export", "crawl", "mutate",
     "payloads", "openapi", "analyze"}

\* Config { .. } with every field None.
NoneConfig == [s \in Settings |-> None]

\* usize/u64 from_str on the digits the modelled flags use.
IsDigit(c) == c \in {"0", "1", "2", "3", "4", "5", "6", "7", "8", "9"}

DigitVal(c) ==
    CASE c = "0" -> 0 [] c = "1" -> 1 [] c = "2" -> 2 [] c = "3" -> 3
      [] c = "4" -> 4 [] c = "5" -> 5 [] c = "6" -> 6 [] c = "7" -> 7
      [] c = "8" -> 8 [] OTHER -> 9

RECURSIVE DecimalValue(_)
DecimalValue(s) ==
    IF s = <<>> THEN 0
    ELSE 10 * DecimalValue(SubSeq(s, 1, Len(s) - 1)) + DigitVal(s[Len(s)])

\* s.parse().ok()
ParseOk(s) ==
    IF s # <<>> /\ \A k \in 1..Len(s) : IsDigit(s[k]) THEN Some(DecimalValue(s))
    ELSE None

\* str::trim on the one padding character the modelled strings use.
RECURSIVE Trim(_)
Trim(s) ==
    IF s # <<>> /\ s[1] = " " THEN Trim(Tail(s))
    ELSE IF s # <<>> /\ s[Len(s)] = " " THEN Trim(SubSeq(s, 1, Len(s) - 1))
    ELSE s

\* Index of the first ':' of s, 0 when there is none.
FirstColon(s) ==
    IF \E k \in 1..Len(s) : s[k] = ":"
    THEN CHOOSE k \in 1..Len(s) : s[k] = ":" /\ \A j \in 1..(k - 1) : s[j] # ":"
    ELSE 0

\* s.splitn(2, ':'), both halves trimmed; a missing half is "".
split_kv(s) ==
    IF FirstColon(s) = 0 THEN <<Trim(s), <<>>>>
    ELSE <<Trim(SubSeq(s, 1, FirstColon(s) - 1)),
           Trim(SubSeq(s, FirstColon(s) + 1, Len(s)))>>

\* Url::parse succeeds on a string with a scheme ("h:" stands for "http://")
\* and fails on "" and on a string without one.
ParsesAsUrl(s) == Len(s) > 2 /\ s[1] = "h" /\ s[2] = ":"

\* Proxy::all(proxy): Ok for a proxy URL of a supported scheme, Err otherwise.
ProxyAllOk(s) == ParsesAsUrl(s)

\* What each flag carries when it is given on the command line.
FlagArg(s) ==
    CASE s = "url"        -> <<"h", ":", "c">>
      [] s = "wordlist"   -> <<"w", "c">>
      [] s = "threads"    -> <<"2">>
      [] s = "timeout"    -> <<"7">>
      [] s = "matcher"    -> <<200>>
      [] s = "headers"    -> << <<"k", ":", " ", "c">> >>
      [] s = "cookies"    -> << <<"n", ":", "c">> >>
      [] s = "auth_token" -> <<"t", "c">>
      [] s = "proxy"      -> <<"h", ":", "q">>
      [] s = "rate_limit" -> <<"9">>
      [] s = "export"     -> <<"e", "c">>
      [] s = "crawl"      -> TRUE
      [] s = "mutate"     -> TRUE
      [] s = "payloads"   -> <<"p", "c">>
      [] s = "openapi"    -> <<"h", ":", "o", "c">>
      [] OTHER            -> <<"r", "c">>

\* What the config file holds for a setting it sets.
FileValue(s) ==
    CASE s = "url"        -> <<"h", ":", "f">>
      [] s = "wordlist"   -> <<"w", "f">>
      [] s = "threads"    -> 1
      [] s = "timeout"    -> 5
      [] s = "matcher"    -> <<404>>
      [] s = "headers"    -> << << <<"k">>, <<"f">> >> >>
      [] s = "cookies"    -> << << <<"n">>, <<"f">> >> >>
      [] s = "auth_token" -> <<"t", "f">>
      [] s = "proxy"      -> <<"h", ":", "p">>
      [] s = "rate_limit" -> 50
      [] s = "export"     -> <<"e", "f">>
      [] s = "crawl"      -> FALSE
      [] s = "mutate"     -> FALSE
      [] s = "payloads"   -> <<"p", "f">>
      [] s = "openapi"    -> <<"h", ":", "o", "f">>
      [] OTHER            -> <<"r", "f">>

FullConfig == [s \in Settings |-> Some(FileValue(s))]

\* A proxy string Proxy::all rejects.
BadProxy == <<"x", "p">>

\* The Config values toml::from_str can give: nothing set, or everything set
\* with the proxy absent, valid or invalid and crawl absent, off or on.
FileConfigs ==
    {NoneConfig} \cup
    {[FullConfig EXCEPT !.proxy = p, !.crawl = c] :
        p \in {None, Some(FileValue("proxy")), Some(BadProxy)},
        c \in {None, Some(FALSE), Some(TRUE)}}

NoFile == [kind |-> "none", config |-> NoneConfig]

\* read_to_string fails, toml::from_str fails, or a Config comes out.
FileOutcomes ==
    {[kind |-> "unreadable", config |-> NoneConfig],
     [kind |-> "unparseable", config |-> NoneConfig]}
    \cup {[kind |-> "ok", config |-> c] : c \in FileConfigs}

\* A command line: --config or not, and at most MaxFlags of the settings.
CommandLines ==
    {[config |-> c, given |-> g] :
        c \in {None, Some(<<"c", "f", "g">>)},
        g \in {F \in SUBSET Settings : Cardinality(F) <= MaxFlags}}

\* Arg::default_value of threads, timeout and matcher.
DefaultArg(s) ==
    CASE s = "threads" -> Some(<<"4", "0">>)
      [] s = "timeout" -> Some(<<"1", "0">>)
      [] s = "matcher" -> Some(DefaultMatcher)
      [] OTHER         -> None

\* matches.get_one::<String>(s) / matches.get_many::<String>(s)
get_one(m, s) == IF s \in m.given THEN Some(FlagArg(s)) ELSE DefaultArg(s)

\* matches.get_flag(s)
get_flag(m, s) == s \in m.given

\* .and_then(|s| s.parse().ok())
AndThenParse(o) == IF o = None THEN None ELSE ParseOk(o[1])

\* .map(|vals| vals.map(|kv| split_kv(kv)).collect())
MapSplitKv(o) ==
    IF o = None THEN None ELSE Some([k \in 1..Len(o[1]) |-> split_kv(o[1][k])])

\* b.then_some(true)
ThenSomeTrue(b) == IF b THEN Some(TRUE) ELSE None

\* The Config built from the flags when no --config is given.
ConfigFromFlags(m) ==
    [s \in Settings |->
        CASE s \in {"threads", "timeout", "rate_limit"} -> AndThenParse(get_one(m, s))
          [] s \in {"headers", "cookies"}               -> MapSplitKv(get_one(m, s))
          [] s \in {"crawl", "mutate"}                  -> ThenSomeTrue(get_flag(m, s))
          [] OTHER                                      -> get_one(m, s)]

\* "Command-line always overrides config if set": the settings copied from
\* the command line into config after it is built.
OverriddenSettings == {"url", "wordlist", "crawl", "mutate", "payloads", "analyze", "openapi"}

OverrideFromFlags(cfg, m) ==
    [s \in Settings |->
        IF s \in OverriddenSettings /\ s \in m.given
        THEN (IF s \in {"crawl", "mutate"} THEN Some(TRUE) ELSE get_one(m, s))
        ELSE cfg[s]]

crawl_enabled(cfg) == UnwrapOr(cfg.crawl, FALSE)

url(cfg) == UnwrapOr(cfg.url, <<>>)

wordlist(cfg) == UnwrapOr(cfg.wordlist, <<>>)

\* The arguments main() passes to crawl.
CrawlDepthArg == 4

CrawlMaxPagesArg == 1000

\* Everything of the dispatch but config, untouched before the dispatch.
DispatchNotStarted ==
    /\ targets = <<>>
    /\ pc = <<>>
    /\ res = <<>>
    /\ permits = 0
    /\ results = <<>>
    /\ progress = 0
    /\ mainpc = "startup"
    /\ exported = None

InitStartup ==
    /\ matches \in CommandLines
    /\ cfg_file \in (IF matches.config = None THEN {NoFile} ELSE FileOutcomes)
    /\ startpc = "args"
    /\ sent = <<>>
    /\ config = NoneConfig
    /\ DispatchNotStarted
    /\ CrawlIdle
    /\ FileIdle

\* if !(has_analyze || has_wordlist || has_crawl || has_config) { exit(1) }
RequireMode ==
    /\ startpc = "args"
    /\ startpc' = IF \/ "analyze" \in matches.given
                     \/ "wordlist" \in matches.given
                     \/ get_flag(matches, "crawl")
                     \/ matches.config # None
                  THEN "config" ELSE "exit1"
    /\ UNCHANGED <<matches, cfg_file, sent>>
    /\ UNCHANGED <<fuzzvars, crawlvars, filevars>>

\* let mut config = if let Some(cfg_path) = .. { read, parse } else { Config { .. } };
\* each expect() panics on Err.
ParseConfig ==
    /\ startpc = "config"
    /\ IF matches.config = None
       THEN /\ config' = ConfigFromFlags(matches)
            /\ startpc' = "override"
       ELSE IF cfg_file.kind = "ok"
       THEN /\ config' = cfg_file.config
            /\ startpc' = "override"
       ELSE /\ config' = config
            /\ startpc' = IF cfg_file.kind = "unreadable"
                          THEN "panic_read_config" ELSE "panic_parse_config"
    /\ UNCHANGED <<matches, cfg_file, sent>>
    /\ UNCHANGED <<targets, pc, res, permits, results, progress, mainpc, exported>>
    /\ UNCHANGED <<crawlvars, filevars>>

\* The seven `if let Some(..) = matches.get_one(..) { config.x = .. }` blocks.
Override ==
    /\ startpc = "override"
    /\ config' = OverrideFromFlags(config, matches)
    /\ startpc' = "wordlist"
    /\ UNCHANGED <<matches, cfg_file, sent>>
    /\ UNCHANGED <<targets, pc, res, permits, results, progress, mainpc, exported>>
    /\ UNCHANGED <<crawlvars, filevars>>

\* if !wordlist.is_empty() { words = load_wordlist(wordlist).await.expect(..) }
LoadWordlist ==
    /\ startpc = "wordlist"
    /\ IF wordlist(config) = <<>>
       THEN startpc' = "payloads"
       ELSE \E ok \in BOOLEAN :
               startpc' = IF ok THEN "payloads" ELSE "panic_wordlist"
    /\ UNCHANGED <<matches, cfg_file, sent>>
    /\ UNCHANGED <<fuzzvars, crawlvars, filevars>>

\* if let Some(payload_file) = payloads_path { load_wordlist(..).await.expect(..) }
LoadPayloads ==
    /\ startpc = "payloads"
    /\ IF config.payloads = None
       THEN startpc' = "crawl"
       ELSE \E ok \in BOOLEAN :
               startpc' = IF ok THEN "crawl" ELSE "panic_payloads"
    /\ UNCHANGED <<matches, cfg_file, sent>>
    /\ UNCHANGED <<fuzzvars, crawlvars, filevars>>

\* if crawl_enabled { crawl(url, 4, 1000, ..).await }: when the URL parses
\* the seed is popped at depth 0 with found empty and its GET is sent.
CrawlCall ==
    /\ startpc = "crawl"
    /\ IF /\ crawl_enabled(config)
          /\ ParsesAsUrl(url(config))
          /\ ~(0 > CrawlDepthArg \/ 0 >= CrawlMaxPagesArg)
       THEN /\ sent' = Append(sent, "crawl")
            /\ startpc' = "crawling"
       ELSE /\ sent' = sent
            /\ startpc' = "client"
    /\ UNCHANGED <<matches, cfg_file>>
    /\ UNCHANGED <<fuzzvars, crawlvars, filevars>>

\* A later iteration of the crawl loop sends the GET of a queued link.
CrawlGet ==
    /\ startpc = "crawling"
    /\ Len(sent) < MaxRequests
    /\ sent' = Append(sent, "crawl")
    /\ UNCHANGED <<matches, cfg_file, startpc>>
    /\ UNCHANGED <<fuzzvars, crawlvars, filevars>>

\* crawl returns its found set.
CrawlReturn ==
    /\ startpc = "crawling"
    /\ startpc' = "client"
    /\ UNCHANGED <<matches, cfg_file, sent>>
    /\ UNCHANGED <<fuzzvars, crawlvars, filevars>>

\* if let Some(proxy) = &config.proxy { .. Proxy::all(proxy).expect("Invalid proxy") }
BuildClient ==
    /\ startpc = "client"
    /\ startpc' = IF config.proxy # None /\ ~ProxyAllOk(config.proxy[1])
                  THEN "panic_proxy" ELSE "dispatch"
    /\ UNCHANGED <<matches, cfg_file, sent>>
    /\ UNCHANGED <<fuzzvars, crawlvars, filevars>>

\* The dispatch sends the request of a target, when there is one.
Dispatch ==
    /\ startpc = "dispatch"
    /\ \E n \in 0..1 : sent' = IF n = 1 THEN Append(sent, "fuzz") ELSE sent
    /\ startpc' = "dispatched"
    /\ UNCHANGED <<matches, cfg_file>>
    /\ UNCHANGED <<fuzzvars, crawlvars, filevars>>

NextStartup ==
    \/ RequireMode
    \/ ParseConfig
    \/ Override
    \/ LoadWordlist
    \/ LoadPayloads
    \/ CrawlCall
    \/ CrawlGet
    \/ CrawlReturn
    \/ BuildClient
    \/ Dispatch

SpecStartup == InitStartup /\ [][NextStartup]_vars

(***************************************************************************)
(* The .json export and its re-load: serde_json::to_string_pretty on the   *)
(* Vec<FuzzResult> and serde_json::from_str::<Vec<FuzzResult>> on the text.*)
(* A text is the sequence of its characters.                               *)
(***************************************************************************)
Quote == "\""

Backslash == "\\"

Newline == "\n"

\* The escape serde_json writes for a character of a string.
EscapeCharRaw(c) == <<c>>

EscapeChar(c) ==
    CASE c = Quote     -> <<Backslash, Quote>>
      [] c = Backslash -> <<Backslash, Backslash>>
      [] c = Newline   -> <<Backslash, "n">>
      [] OTHER         -> <<c>>

RECURSIVE EscapeStr(_)
EscapeStr(s) == IF s = <<>> THEN <<>> ELSE EscapeChar(Head(s)) \o EscapeStr(Tail(s))

WriteStr(s) == <<Quote>> \o EscapeStr(s) \o <<Quote>>

DigitChar(d) ==
    CASE d = 0 -> "0" [] d = 1 -> "1" [] d = 2 -> "2" [] d = 3 -> "3" [] d = 4 -> "4"
      [] d = 5 -> "5" [] d = 6 -> "6" [] d = 7 -> "7" [] d = 8 -> "8" [] OTHER -> "9"

\* The decimal digits of an unsigned integer.
RECURSIVE WriteNum(_)
WriteNum(n) ==
    IF n < 10 THEN <<DigitChar(n)>> ELSE WriteNum(n \div 10) \o <<DigitChar(n % 10)>>

WriteBool(b) == IF b THEN <<"t", "r", "u", "e">> ELSE <<"f", "a", "l", "s", "e">>

NullText == <<"n", "u", "l", "l">>

\* Option<String>: None is null, Some(s) is the string.
WriteOpt(o) == IF o = None THEN NullText ELSE WriteStr(o[1])

\* "key": value at the indentation of a record's fields.
WriteField(key, value, last) ==
    <<" ", " ", " ", " ">> \o WriteStr(key) \o <<":", " ">> \o value
        \o (IF last THEN <<Newline>> ELSE <<",", Newline>>)

\* One FuzzResult, fields in declaration order.
WriteResult(r) ==
    <<" ", " ", "{", Newline>>
        \o WriteField(<<"u", "r", "l">>, WriteStr(r.url), FALSE)
        \o WriteField(<<"w", "o", "r", "d">>, WriteStr(r.word), FALSE)
        \o WriteField(<<"s", "t", "a", "t", "u", "s">>, WriteNum(r.status), FALSE)
        \o WriteField(<<"r", "e", "f", "l", "e", "c", "t", "e", "d">>, WriteBool(r.reflected), FALSE)
        \o WriteField(<<"e", "r", "r", "o", "r">>, WriteOpt(r.error), TRUE)
        \o <<" ", " ", "}">>

RECURSIVE WriteElements(_)
WriteElements(rs) ==
    IF Len(rs) = 1 THEN WriteResult(rs[1]) \o <<Newline>>
    ELSE WriteResult(Head(rs)) \o <<",", Newline>> \o WriteElements(Tail(rs))

\* serde_json::to_string_pretty(&*results).unwrap()
to_string_pretty(rs) ==
    IF rs = <<>> THEN <<"[", "]">>
    ELSE <<"[", Newline>> \o WriteElements(rs) \o <<"]">>

\* ---- reading ----
Fail == [ok |-> FALSE, val |-> <<>>, pos |-> 0]

Done(v, p) == [ok |-> TRUE, val |-> v, pos |-> p]

At(t, p) == IF p <= Len(t) THEN t[p] ELSE "EOF"

RECURSIVE SkipWs(_, _)
SkipWs(t, p) == IF At(t, p) \in {" ", Newline} THEN SkipWs(t, p + 1) ELSE p

\* The characters of a string up to its closing quote, escapes undone.
RECURSIVE ReadChars(_, _, _)
ReadChars(t, p, acc) ==
    IF p > Len(t) \/ t[p] = Newline THEN Fail
    ELSE IF t[p] = Quote THEN Done(acc, p + 1)
    ELSE IF t[p] = Backslash
    THEN (CASE At(t, p + 1) = Quote     -> ReadChars(t, p + 2, Append(acc, Quote))
            [] At(t, p + 1) = Backslash -> ReadChars(t, p + 2, Append(acc, Backslash))
            [] At(t, p + 1) = "n"       -> ReadChars(t, p + 2, Append(acc, Newline))
            [] OTHER                    -> Fail)
    ELSE ReadChars(t, p + 1, Append(acc, t[p]))

RECURSIVE DigitsEnd(_, _)
DigitsEnd(t, p) == IF IsDigit(At(t, p)) THEN DigitsEnd(t, p + 1) ELSE p

IsLiteral(t, p, lit) ==
    /\ p + Len(lit) - 1 <= Len(t)
    /\ SubSeq(t, p, p + Len(lit) - 1) = lit

\* A JSON value of the kinds the export holds, tagged with its kind.
ReadValue(t, p) ==
    IF At(t, p) = Quote
    THEN (LET r == ReadChars(t, p + 1, <<>>)
          IN  IF r.ok THEN Done([kind |-> "str", str |-> r.val, num |-> 0, bool |-> FALSE], r.pos)
              ELSE Fail)
    ELSE IF IsDigit(At(t, p))
    THEN Done([kind |-> "num", str |-> <<>>,
               num |-> DecimalValue(SubSeq(t, p, DigitsEnd(t, p) - 1)), bool |-> FALSE],
              DigitsEnd(t, p))
    ELSE IF IsLiteral(t, p, WriteBool(TRUE))
    THEN Done([kind |-> "bool", str |-> <<>>, num |-> 0, bool |-> TRUE], p + 4)
    ELSE IF IsLiteral(t, p, WriteBool(FALSE))
    THEN Done([kind |-> "bool", str |-> <<>>, num |-> 0, bool |-> FALSE], p + 5)
    ELSE IF IsLiteral(t, p, NullText)
    THEN Done([kind |-> "null", str |-> <<>>, num |-> 0, bool |-> FALSE], p + 4)
    ELSE Fail

\* "key": value members up to the closing brace; p is at a key.
RECURSIVE ReadMembers(_, _, _)
ReadMembers(t, p, acc) ==
    IF At(t, p) # Quote THEN Fail
    ELSE LET k == ReadChars(t, p + 1, <<>>)
         IN  IF ~k.ok \/ At(t, SkipWs(t, k.pos)) # ":" THEN Fail
             ELSE LET v == ReadValue(t, SkipWs(t, SkipWs(t, k.pos) + 1))
                  IN  IF ~v.ok THEN Fail
                      ELSE LET q   == SkipWs(t, v.pos)
                               mem == Append(acc, [key |-> k.val, value |-> v.val])
                           IN  IF At(t, q) = "}" THEN Done(mem, q + 1)
                               ELSE IF At(t, q) = "," THEN ReadMembers(t, SkipWs(t, q + 1), mem)
                               ELSE Fail

ReadObject(t, p) ==
    IF At(t, p) # "{" THEN Fail
    ELSE IF At(t, SkipWs(t, p + 1)) = "}" THEN Done(<<>>, SkipWs(t, p + 1) + 1)
    ELSE ReadMembers(t, SkipWs(t, p + 1), <<>>)

KeyUrl == <<"u", "r", "l">>

KeyWord == <<"w", "o", "r", "d">>

KeyStatus == <<"s", "t", "a", "t", "u", "s">>

KeyReflected == <<"r", "e", "f", "l", "e", "c", "t", "e", "d">>

KeyError == <<"e", "r", "r", "o", "r">>

\* The members of an object that carry the given key.
MembersOf(mem, key) == {k \in 1..Len(mem) : mem[k].key = key}

ValueOf(mem, key) == mem[CHOOSE k \in MembersOf(mem, key) : TRUE].value

\* The largest u16.
U16Max == 65535

\* #[derive(Deserialize)] on FuzzResult: every field once and of its type,
\* a missing Option field is None, a field given twice is an error.
ToFuzzResult(mem) ==
    IF /\ \A key \in {KeyUrl, KeyWord, KeyStatus, KeyReflected} :
             Cardinality(MembersOf(mem, key)) = 1
       /\ Cardinality(MembersOf(mem, KeyError)) <= 1
       /\ ValueOf(mem, KeyUrl).kind = "str"
       /\ ValueOf(mem, KeyWord).kind = "str"
       /\ ValueOf(mem, KeyStatus).kind = "num"
       /\ ValueOf(mem, KeyStatus).num <= U16Max
       /\ ValueOf(mem, KeyReflected).kind = "bool"
       /\ MembersOf(mem, KeyError) # {} => ValueOf(mem, KeyError).kind \in {"null", "str"}
    THEN Done([url       |-> ValueOf(mem, KeyUrl).str,
               word      |-> ValueOf(mem, KeyWord).str,
               status    |-> ValueOf(mem, KeyStatus).num,
               reflected |-> ValueOf(mem, KeyReflected).bool,
               error     |-> IF MembersOf(mem, KeyError) = {} THEN None
                             ELSE IF ValueOf(mem, KeyError).kind = "null" THEN None
                             ELSE Some(ValueOf(mem, KeyError).str)],
              0)
    ELSE Fail

\* The elements of the array up to its closing bracket; p is at an element.
RECURSIVE ReadElements(_, _, _)
ReadElements(t, p, acc) ==
    LET o == ReadObject(t, p)
    IN  IF ~o.ok THEN Fail
        ELSE LET r == ToFuzzResult(o.val)
                 q == SkipWs(t, o.pos)
             IN  IF ~r.ok THEN Fail
                 ELSE IF At(t, q) = "]" THEN Done(Append(acc, r.val), q + 1)
                 ELSE IF At(t, q) = "," THEN ReadElements(t, SkipWs(t, q + 1), Append(acc, r.val))
                 ELSE Fail

ReadArray(t, p) ==
    IF At(t, p) # "[" THEN Fail
    ELSE IF At(t, SkipWs(t, p + 1)) = "]" THEN Done(<<>>, SkipWs(t, p + 1) + 1)
    ELSE ReadElements(t, SkipWs(t, p + 1), <<>>)

\* serde_json::from_str::<Vec<FuzzResult>>(&file_content): Some(v) for Ok(v),
\* None for Err; nothing may follow the array but white space.
from_str(t) ==
    LET a == ReadArray(t, SkipWs(t, 1))
    IN  IF a.ok /\ SkipWs(t, a.pos) = Len(t) + 1 THEN Some(a.val) ELSE None

\* Result lists handed to the export: strings with a quote, a backslash
\* followed by n, a line break, the text null and the empty string.
UrlTexts == { <<"u">>, <<Quote>> }

WordTexts == { <<Backslash, "n">>, <<Newline>> }

Statuses == {0, U16Max}

ErrorTexts == {None, Some(<<>>), Some(NullText)}

ResultPool ==
    [url : UrlTexts, word : WordTexts, status : Statuses, reflected : BOOLEAN,
     error : ErrorTexts]

ResultLists == UNION {[1..n -> ResultPool] : n \in 0..MaxResults}

InitRoundTrip ==
    /\ results \in ResultLists
    /\ mainpc = "export"
    /\ exported = None
    /\ file = None
    /\ loaded = None
    /\ config = [threads |-> None, rate_limit |-> None, matcher |-> None]
    /\ targets = <<>>
    /\ pc = <<>>
    /\ res = <<>>
    /\ permits = 0
    /\ progress = 0
    /\ CrawlIdle
    /\ StartIdle

\* export.ends_with(".json"): std::fs::write(export, to_string_pretty(..))
ExportJson ==
    /\ mainpc = "export"
    /\ file = None
    /\ file' = Some(to_string_pretty(results))
    /\ exported' = Some(results)
    /\ mainpc' = "analyze"
    /\ UNCHANGED <<config, targets, pc, res, permits, results, progress, loaded>>
    /\ UNCHANGED <<crawlvars, startvars>>

\* analyze_results(path) with path.ends_with(".json"): read the file and
\* parse it; on Err the function returns with nothing loaded.
AnalyzeJson ==
    /\ mainpc = "analyze"
    /\ file # None
    /\ loaded' = from_str(file[1])
    /\ mainpc' = "exit"
    /\ UNCHANGED <<config, targets, pc, res, permits, results, progress, exported, file>>
    /\ UNCHANGED <<crawlvars, startvars>>

NextRoundTrip ==
    \/ ExportJson
    \/ AnalyzeJson

SpecRoundTrip == InitRoundTrip /\ [][NextRoundTrip]_vars

(***************************************************************************)
(* Properties of the fuzz dispatch.                                        *)
(***************************************************************************)
AllSettled == \A i \in 1..N : pc[i] = "done"

\* The status of entry i's response is one the configured matcher retains.
Retained(i) ==
    /\ res[i].kind = "ok"
    /\ res[i].status \in {c \in Range(UnwrapOr(config.matcher, DefaultMatcher)) : c < 65536}

\* Entry i's block is past the point where it would push its record.
PastPush(i) == pc[i] \in {"inc", "release", "done"}

\* Entry i's block is past progress_bar.inc(1).
Counted(i) == pc[i] \in {"release", "done"}

RecordsOf(u, s) == {k \in 1..Len(results) : results[k].url = u /\ results[k].status = s}

\* C1: whenever a concurrency limit C >= 1 is configured (or the default 40
\* applies), the number of workers that hold a slot, sleeping in the
\* rate-limit delay included, is at most C.
C1_InFlightAtMostLimit ==
    /\ config.threads \notin {None, Some(0)} =>
          Cardinality(InFlight) <= config.threads[1]
    /\ config.threads = None => Cardinality(InFlight) <= 40

\* One slot configured, two targets: one worker sleeps in the delay holding
\* the slot while the other target is still held back.
C1_Witness ==
    /\ config.threads = Some(1)
    /\ N = 2
    /\ pc[1] = "sleep"
    /\ pc[2] = "pending"

\* C2: for every target entry, duplicates counted separately: a status in the
\* matcher set gives exactly one FuzzResult, any other status gives none,
\* whatever the body; when dispatch ends the collection holds exactly one
\* record per entry whose status was in the matcher set.
C2_OneRecordPerRetainedEntry ==
    /\ \A u \in TargetPool : \A s \in {0, 200, 404} :
          Cardinality(RecordsOf(u, s)) =
             Cardinality({i \in 1..N : /\ PastPush(i) /\ Retained(i)
                                       /\ targets[i] = u /\ res[i].status = s})
    /\ Len(results) = Cardinality({i \in 1..N : PastPush(i) /\ Retained(i)})
    /\ AllSettled => Len(results) = Cardinality({i \in 1..N : Retained(i)})

\* The same target twice: one answer retained, the other answered 404 with a
\* body that reflects the word and carries an error signature, and discarded.
C2_Witness ==
    /\ AllSettled
    /\ N = 2
    /\ targets[1] = targets[2]
    /\ Retained(1)
    /\ ~Retained(2)
    /\ res[2].kind = "ok"
    /\ res[2].body # <<>>
    /\ Len(results) = 1

C4_ProgressOncePerTarget ==
    /\ progress = Cardinality({i \in 1..N : Counted(i)})
    /\ \A i \in 1..N : Counted(i) => res[i].kind # "none"
    /\ \A i \in 1..N : res[i].kind = "none" => ~PastPush(i)
    /\ mainpc # "dispatch" => progress = N

\* A failed target and a discarded one, both counted.
C4_Witness ==
    /\ mainpc = "export"
    /\ N = 2
    /\ progress = 2
    /\ res[1].kind = "err"
    /\ res[2].kind = "ok"
    /\ ~Retained(2)

\* C5: main() is past the dispatch only when every target's block has
\* completed, and what the export step wrote is the complete collection.
C5_ExportAfterBarrier ==
    /\ mainpc \in {"export", "analyze", "exit"} => AllSettled
    /\ exported # None =>
          /\ exported[1] = results
          /\ Len(exported[1]) = Cardinality({i \in 1..N : Retained(i)})

\* Two retained targets, both in the exported file.
C5_Witness ==
    /\ mainpc = "analyze"
    /\ N = 2
    /\ exported # None
    /\ Len(exported[1]) = 2

\* C6: with a limit C >= 1 (or the default), under fair scheduling the
\* dispatch ends with every target processed and all C slots free, and at
\* every moment the free slots plus the slots held add up to C.
C6_CompletesAndFreesSlots ==
    /\ [](permits + Cardinality(InFlight) = UnwrapOr(config.threads, 40))
    /\ (config.threads # Some(0))
          => <>[](/\ mainpc = "exit"
                  /\ AllSettled
                  /\ progress = N
                  /\ permits = UnwrapOr(config.threads, 40))

\* One slot, two targets, one retained and one failed: finished, slot free.
C6_Witness ==
    /\ mainpc = "exit"
    /\ config.threads = Some(1)
    /\ N = 2
    /\ Retained(1)
    /\ res[2].kind = "err"
    /\ permits = 1

(***************************************************************************)
(* Properties of crawl().                                                  *)
(***************************************************************************)
SeedUrl == base_url[1]

PushedUrls == {pushed[k].url : k \in 1..Len(pushed)}

\* C7: in every state of crawl, and so in the set it returns, found holds at
\* most max_pages URLs, also when one page has more new links than the
\* budget that is left.
C7_FoundWithinPageBudget == Cardinality(found) <= max_pages

\* C8: every URL in found was given a depth of at most max_depth when it was
\* discovered (seed 0, a link on a page of depth d gets d + 1).
C8_FoundWithinMaxDepth ==
    \A k \in 1..Len(pushed) :
        pushed[k].url \in found => pushed[k].depth <= max_depth

\* C9: every URL in found has the seed's scheme and the seed's host, for
\* domain-name and IP-address hosts alike.
C9_FoundOnSeedOrigin ==
    \A u \in found : u.scheme = SeedUrl.scheme /\ u.host = SeedUrl.host

C11_NonHtmlPageNotReturned ==
    crawlpc = "returned" =>
        \A k \in 1..Len(requests) :
            requests[k].outcome = "nonhtml" => requests[k].url \notin found

EndsWithStaticExtension(u) == \E ext \in static_extensions : EndsWith(u.path, ext)

\* C13 as stated: no URL with a filtered static-asset extension is in found,
\* is ever put on the frontier, or is ever fetched.
C13_NoStaticAssetQueuedOrFetched ==
    /\ \A u \in found : ~EndsWithStaticExtension(u)
    /\ \A k \in 1..Len(pushed) : ~EndsWithStaticExtension(pushed[k].url)
    /\ \A k \in 1..Len(requests) : ~EndsWithStaticExtension(requests[k].url)

\* C13 as amended: no URL with a filtered static-asset extension is in
\* found, and the only such URL ever put on the frontier or fetched is the
\* seed itself, which crawl queues without looking at its extension.
C13_NoStaticAssetButSeed ==
    /\ \A u \in found : ~EndsWithStaticExtension(u)
    /\ \A k \in 1..Len(pushed) :
          EndsWithStaticExtension(pushed[k].url) => (k = 1 /\ pushed[k].url = SeedUrl)
    /\ \A k \in 1..Len(requests) :
          EndsWithStaticExtension(requests[k].url) => (k = 1 /\ requests[k].url = SeedUrl)

\* A link to /x.js was met on a.com: marked visited, neither returned nor
\* queued nor fetched, while /a beside it was.
C13_Witness ==
    /\ crawlpc = "returned"
    /\ base_url = Some(Url("http", DomainHost("a.com"), RootPath))
    /\ Url("http", DomainHost("a.com"), PathJs) \in visited
    /\ found = {Url("http", DomainHost("a.com"), PathA)}
    /\ Len(requests) = 2

\* The entry at the head of the frontier meets the stop condition.
StopCase ==
    /\ crawlpc = "loop"
    /\ queue # <<>>
    /\ (Head(queue).depth > max_depth \/ Cardinality(found) >= max_pages)

\* C17: when the entry at the head of the frontier has depth > max_depth or
\* found already holds max_pages URLs, the next step ends the crawl with no
\* GET and found unchanged; after the return nothing is fetched or added.
C17_StopBeforeAnyRequest ==
    [][/\ StopCase => (crawlpc' = "returned" /\ requests' = requests /\ found' = found)
       /\ crawlpc = "returned" =>
             (crawlpc' = "returned" /\ requests' = requests /\ found' = found)]_vars

\* The page budget of 2 was met by the seed page: /a was popped and not
\* fetched, and another entry is still on the frontier, not fetched either.
C17_Witness ==
    /\ crawlpc = "returned"
    /\ max_pages = 2
    /\ Cardinality(found) = 2
    /\ Len(queue) = 1
    /\ Len(requests) = 1

\* C18: entries leave the frontier in the order they entered it and with
\* non-decreasing depths; the depths on the frontier are non-decreasing from
\* head to tail and differ by at most 1.
C18_BfsOrder ==
    /\ \A j, k \in 1..Len(pushed) : j <= k => pushed[j].depth <= pushed[k].depth
    /\ Len(queue) <= Len(pushed)
    /\ queue = SubSeq(pushed, Len(pushed) - Len(queue) + 1, Len(pushed))
    /\ \A j, k \in 1..Len(queue) : j <= k => queue[j].depth <= queue[k].depth
    /\ queue # <<>> => queue[Len(queue)].depth - queue[1].depth <= 1

\* A frontier holding an entry of depth 1 ahead of an entry of depth 2.
C18_Witness ==
    /\ Len(queue) >= 2
    /\ queue[1].depth = 1
    /\ queue[Len(queue)].depth = 2

\* C19: a step that issues a GET which fails, or is not text/html, or whose
\* body cannot be read, leaves found, visited and the pushes as they were,
\* only drops the popped entry from the frontier, and stays in the loop.
C19_SkippedPageChangesNothing ==
    [][(/\ Len(requests') = Len(requests) + 1
        /\ requests'[Len(requests')].outcome \in {"error", "nonhtml", "badbody"})
          => (/\ found' = found
              /\ visited' = visited
              /\ pushed' = pushed
              /\ queue' = Tail(queue)
              /\ crawlpc' = "loop")]_vars

\* The second GET failed at transport level and the crawl went on to fetch
\* the next frontier entry.
C19_Witness ==
    /\ Len(requests) = 3
    /\ requests[2].outcome = "error"
    /\ requests[3].outcome = "html"
    /\ Cardinality(found) = 2

SeedFetches == {k \in 1..Len(requests) : requests[k].url = SeedUrl}

\* C20 as stated: the seed is never in found and, when crawl has returned,
\* it has been fetched exactly once.
C20_SeedFetchedExactlyOnce ==
    base_url # None =>
        /\ SeedUrl \notin found
        /\ crawlpc = "returned" => Cardinality(SeedFetches) = 1

\* C20 as amended: the seed is in visited from the first iteration on and is
\* never in found; it is fetched at most once, and exactly once when
\* max_pages >= 1 (with max_pages = 0 the first pop already stops the crawl).
C20_SeedVisitedNeverFound ==
    base_url # None =>
        /\ crawlpc # "start" => SeedUrl \in visited
        /\ SeedUrl \notin found
        /\ Cardinality(SeedFetches) <= 1
        /\ (crawlpc = "returned" /\ max_pages >= 1) => Cardinality(SeedFetches) = 1

\* /a was discovered and its page linked back to the seed: the link was
\* rejected, the seed is not in found and was fetched once.
C20_Witness ==
    /\ crawlpc = "returned"
    /\ base_url = Some(Url("http", DomainHost("a.com"), RootPath))
    /\ dup_seen = {SeedUrl}
    /\ found = {Url("http", DomainHost("a.com"), PathA)}
    /\ Len(requests) = 2
    /\ requests[2].outcome = "html"

\* ---------------------------------------------------------------------
\* C16  Within one target's unit of work the steps happen strictly in the
\* order acquire slot, optional rate-limit delay, send, receive, classify,
\* append (if retained), release slot: the delay, when rate_limit > 0,
\* happens after the slot is taken and before the request is sent, and the
\* slot is given back only after the append and the progress increment.
\* Every step of worker i moves it to the next position of that order,
\* the slot count drops at the acquire step only and rises at the final
\* step only.
StepsAfter(i) ==
    CASE pc[i] = "pending" -> {"acquire"}
      [] pc[i] = "acquire" -> IF rate_limit(config) > 0 THEN {"sleep"} ELSE {"send"}
      [] pc[i] = "sleep"   -> {"send"}
      [] pc[i] = "send"    -> {"match"}
      [] pc[i] = "match"   -> {"append", "inc"}
      [] pc[i] = "append"  -> {"inc"}
      [] pc[i] = "inc"     -> {"release"}
      [] pc[i] = "release" -> {"done"}
      [] OTHER             -> {}

SlotDelta(i) ==
    IF pc[i] = "acquire" THEN 0 - 1 ELSE IF pc[i] = "release" THEN 1 ELSE 0

C16_UnitOfWorkOrder ==
    [][\A i \in 1..N :
          pc'[i] # pc[i] =>
              /\ pc'[i] \in StepsAfter(i)
              /\ permits' = permits + SlotDelta(i)
              /\ (pc[i] = "append" => results' = Append(results, FuzzResultOf(i)))
              /\ (pc[i] # "append" => results' = results)
              /\ (pc[i] = "inc" => progress' = progress + 1)
              /\ (pc[i] # "inc" => progress' = progress)]_vars

\* A delayed worker is waiting with its slot held while another, whose
\* record is already appended and counted, has not yet given its slot back.
C16_Witness ==
    /\ rate_limit(config) > 0
    /\ permits = 0
    /\ \E i, j \in 1..N :
          /\ pc[i] = "sleep"
          /\ pc[j] = "release"
          /\ FuzzResultOf(j) \in Range(results)

\* ---------------------------------------------------------------------
\* C12  A configuration error (unreadable or unparseable config file, or
\* an invalid proxy URL) aborts the run before any network activity: when
\* the process has aborted on such an error, no crawl request and no fuzz
\* request has been issued, also when crawl is enabled.
C12_ConfigErrorBeforeNetwork ==
    startpc \in {"panic_read_config", "panic_parse_config", "panic_proxy"}
        => sent = <<>>

\* ---------------------------------------------------------------------
\* C15  Flags override the config file: once the configuration is settled,
\* for every setting that is given on the command line together with a
\* config file, the value the run uses is the one the flag carries.
ConfigSettled ==
    startpc \notin {"idle", "args", "exit1", "config", "override",
                    "panic_read_config", "panic_parse_config"}

C15_FlagsOverrideFile ==
    (ConfigSettled /\ matches.config # None)
        => \A s \in matches.given : config[s] = ConfigFromFlags(matches)[s]

\* ---------------------------------------------------------------------
\* C14  Round trip: for every result list, exporting it to a .json file and
\* re-loading that file in analyze mode yields a list of the same length
\* and order in which every record has identical url, word, status,
\* reflected and error (None stays None, Some(text) stays Some(text)).
C14_JsonRoundTrip ==
    (mainpc = "exit" /\ file # None) =>
        /\ loaded # None
        /\ Len(loaded[1]) = Len(results)
        /\ \A k \in 1..Len(results) :
              /\ loaded[1][k].url = results[k].url
              /\ loaded[1][k].word = results[k].word
              /\ loaded[1][k].status = results[k].status
              /\ loaded[1][k].reflected = results[k].reflected
              /\ loaded[1][k].error = results[k].error

\* Two records re-loaded, one with a quote in its url, a line break in its
\* word and no error, the other with the error text "null".
C14_Witness ==
    /\ mainpc = "exit"
    /\ loaded # None
    /\ Len(loaded[1]) = 2
    /\ loaded[1][1].url = <<Quote>>
    /\ loaded[1][1].word = <<Newline>>
    /\ loaded[1][1].error = None
    /\ loaded[1][2].error = Some(NullText)
    /\ loaded[1][2].status = U16Max

\* ---------------------------------------------------------------------
\* C24  The probed token is the text after the last '/' of the target: the
\* word of a record holds no '/' and closes its url right after a '/' (or
\* is the whole url when that has none).  For a target that ends with '/'
\* the token is the empty string and the reflected flag of its record is
\* true for every response body, an empty body included.
EndsWithSlash(t) == t # <<>> /\ t[Len(t)] = "/"

IsTokenOf(w, t) ==
    /\ \A k \in 1..Len(w) : w[k] # "/"
    /\ Len(w) <= Len(t)
    /\ SubSeq(t, Len(t) - Len(w) + 1, Len(t)) = w
    /\ (Len(w) < Len(t) => t[Len(t) - Len(w)] = "/")

C24_TrailingSlashTokenReflected ==
    /\ \A k \in 1..Len(results) :
          /\ IsTokenOf(results[k].word, results[k].url)
          /\ EndsWithSlash(results[k].url) =>
                (results[k].word = <<>> /\ results[k].reflected)
    /\ \A i \in 1..N :
          (pc[i] = "append" /\ EndsWithSlash(targets[i])) => FuzzResultOf(i).reflected

\* The record of a directory target whose response body was empty.
C24_Witness ==
    \E i \in 1..N :
        /\ pc[i] = "done"
        /\ EndsWithSlash(targets[i])
        /\ res[i].kind = "ok"
        /\ res[i].body = <<>>
        /\ \E k \in 1..Len(results) :
              /\ results[k].url = targets[i]
              /\ results[k].word = <<>>
              /\ results[k].reflected

\* ---------------------------------------------------------------------
\* C22  For every concurrency limit C >= 1 (the default included) a worker
\* never has to wait on the admission gate: whenever a started worker is
\* about to acquire, at least one permit is free, because at most C units
\* are started at a time and each holds at most one permit until it ends.
C22_AcquireNeverWaits ==
    threads(config) >= 1 =>
        /\ Cardinality(Active) <= threads(config)
        /\ \A i \in 1..N : pc[i] = "acquire" => permits > 0

\* The tight case: with C permits, C - 1 are held and the last started
\* worker is about to take the one that is left.
C22_Witness ==
    /\ config.threads = Some(2)
    /\ permits = 1
    /\ Cardinality(InFlight) = 1
    /\ \E i \in 1..N : pc[i] = "acquire"

\* ---------------------------------------------------------------------
\* C23  With a configured thread count of 0 and a non-empty target list the
\* gate has no permit while the stream treats the limit 0 as unlimited:
\* every target's unit of work is started and stays blocked on acquire, no
\* request is ever sent, the progress counter stays at 0 and the dispatch
\* never completes.  With an empty target list the dispatch completes.
ZeroThreads == config.threads = Some(0)

C23_ZeroThreadsDeadlock ==
    /\ []((ZeroThreads /\ N > 0) =>
            /\ \A i \in 1..N : pc[i] \in {"pending", "acquire"}
            /\ permits = 0
            /\ progress = 0
            /\ results = <<>>
            /\ mainpc = "dispatch")
    /\ (ZeroThreads /\ N > 0) => <>[](\A i \in 1..N : pc[i] = "acquire")
    /\ (N = 0) => <>(mainpc = "exit")

\* Two targets, both started and both blocked on a gate without permits.
C23_Witness ==
    /\ ZeroThreads
    /\ N = 2
    /\ permits = 0
    /\ \A i \in 1..N : pc[i] = "acquire"

\* ---------------------------------------------------------------------
\* C21  For every link graph whose pages have finitely many links, cyclic
\* graphs and graphs larger than the budgets included, and every max_depth
\* and max_pages, crawl terminates provided each request settles: the
\* function returns, and it returns because the seed did not parse, the
\* frontier is empty or the popped entry meets a stop condition.
ReturnsNow == crawlpc # "returned" /\ crawlpc' = "returned"

C21_CrawlTerminates ==
    /\ <>[](crawlpc = "returned")
    /\ [][ReturnsNow =>
            \/ base_url = None
            \/ queue = <<>>
            \/ Head(queue).depth > max_depth
            \/ Cardinality(found) >= max_pages]_vars

\* A crawl that has returned from a graph with a link back to the seed,
\* leaving a discovered page on the frontier: the budgets ended it.
C21_Witness ==
    /\ crawlpc = "returned"
    /\ base_url # None
    /\ base_url[1] \in dup_seen
    /\ queue # <<>>
    /\ requests # <<>>

====
